---- MODULE Spec2Model ----
(***************************************************************************)
(* Text-line reconstruction layer of pdf2docx: the line collection         *)
(* (pdf2docx/text/Lines.py) and the text span (pdf2docx/text/TextSpan.py). *)
(*                                                                         *)
(* Coordinates are integers on a small grid.  A bbox is the 4-tuple        *)
(* <<x0, y0, x1, y1>>; the code indexes it from 0 (bbox[0] = x0,           *)
(* bbox[3] = y1), and At(b, idx) keeps that indexing.                      *)
(***************************************************************************)
EXTENDS Integers, Sequences, FiniteSets

\* ------------------------------------------------------------- bounds
\* most lines in a collection that is sorted or joined
MaxLines == 3
\* largest y coordinate of a line that is sorted, joined or styled
MaxY == 3
\* most lines in a block whose breaks and tab stops are decided
MaxBlockLines == 2
\* largest x coordinate of a line in such a block
MaxX == 2
\* most characters in a text span that is split or clipped
MaxChars == 3
\* lines of a collection that a style shape is applied to
MaxFormatLines == 2

VARIABLES
    instances,   \* Lines._instances: the ordered lines of the collection
    horizontal,  \* is_horizontal_text of the collection and of its block
    block,       \* the owning block (self.parent)
    op,          \* the operation that produced this state
    input,       \* _instances when that operation started
    arg,         \* the arguments that operation was called with
    discarded,   \* ids of the lines join reported as ignored
    paragraph,   \* what make_docx has put into the paragraph p, in order
    visited,     \* ids of the lines parse_text_format found intersecting
    span,        \* the text span split / intersect is called on
    ret,         \* what the operation returned
    err          \* the exception the operation raised, "none" if it returned

vars == <<instances, horizontal, block, op, input, arg, discarded, paragraph,
          visited, span, ret, err>>

\* ------------------------------------------------------------ geometry
At(b, idx) == b[idx + 1]

Abs(n) == IF n < 0 THEN -n ELSE n
Min(a, b) == IF a < b THEN a ELSE b
Max(a, b) == IF a > b THEN a ELSE b

\* fitz.Rect(): the empty rectangle
EmptyRect == <<0, 0, 0, 0>>

\* bool(fitz.Rect): false only when every coordinate is zero
RectBool(r) == ~(r[1] = 0 /\ r[2] = 0 /\ r[3] = 0 /\ r[4] = 0)

\* fitz: a rectangle with no width or no height is empty
RectIsEmpty(r) == r[1] = r[3] \/ r[2] = r[4]

\* fitz.Rect.getArea()
RectArea(r) == Abs(r[3] - r[1]) * Abs(r[4] - r[2])

\* fitz `a & b`: the common area; the empty rectangle when either operand is
\* empty or the two are disjoint; rectangles sharing only an edge give a
\* rectangle of zero area that is still true as a bool
RectAnd(a, b) ==
    IF RectIsEmpty(a) \/ RectIsEmpty(b) THEN EmptyRect
    ELSE LET r == <<Max(a[1], b[1]), Max(a[2], b[2]), Min(a[3], b[3]), Min(a[4], b[4])>>
         IN  IF r[3] < r[1] \/ r[4] < r[2] THEN EmptyRect ELSE r

\* fitz `a | b`: the smallest rectangle holding both; an empty operand is ignored
RectOr(a, b) ==
    IF RectIsEmpty(a) THEN b
    ELSE IF RectIsEmpty(b) THEN a
    ELSE <<Min(a[1], b[1]), Min(a[2], b[2]), Max(a[3], b[3]), Max(a[4], b[4])>>

\* fitz.Rect.contains(r)
RectContains(a, b) ==
    a[1] <= b[1] /\ a[2] <= b[2] /\ b[3] <= a[3] /\ b[4] <= a[4]

\* fitz.Rect.intersects(r): false for an empty operand, else a common area
RectIntersects(a, b) ==
    /\ ~RectIsEmpty(a) /\ ~RectIsEmpty(b)
    /\ Max(a[1], b[1]) < Min(a[3], b[3])
    /\ Max(a[2], b[2]) < Min(a[4], b[4])

\* ------------------------------------------------------------- helpers
Range(s) == {s[i] : i \in 1..Len(s)}

\* the tuples of length 3 in lexicographic order
LexLess(a, b) ==
    \/ a[1] < b[1]
    \/ a[1] = b[1] /\ a[2] < b[2]
    \/ a[1] = b[1] /\ a[2] = b[2] /\ a[3] < b[3]

\* list.sort(key=...) with a 3-tuple key, ascending and stable, on the pairs
\* <<key, item>>: an item goes behind every item whose key is not greater
RECURSIVE InsertByKey(_, _)
InsertByKey(sorted, e) ==
    IF sorted = <<>> THEN <<e>>
    ELSE IF LexLess(e[1], Head(sorted)[1])
         THEN <<e>> \o sorted
         ELSE <<Head(sorted)>> \o InsertByKey(Tail(sorted), e)

RECURSIVE SortFrom(_, _)
SortFrom(s, acc) ==
    IF s = <<>> THEN acc ELSE SortFrom(Tail(s), InsertByKey(acc, Head(s)))

StableSort(keyed) ==
    LET pairs == SortFrom(keyed, <<>>)
    IN  [i \in 1..Len(keyed) |-> pairs[i][2]]

RECURSIVE Flatten(_)
Flatten(ss) == IF ss = <<>> THEN <<>> ELSE Head(ss) \o Flatten(Tail(ss))

\* ---------------------------------------------------------------- Line
\* BBox.in_same_row: the far edge of each box lies beyond the centre line of
\* the other (y for horizontal text, x for vertical text); centres are
\* compared doubled to stay in the integers
in_same_row(a, b, horiz) ==
    LET idx == IF horiz THEN 1 ELSE 0
        c1x2 == At(a.bbox, idx) + At(a.bbox, idx + 2)
        c2x2 == At(b.bbox, idx) + At(b.bbox, idx + 2)
    IN  c1x2 <= 2 * At(b.bbox, idx + 2) /\ c2x2 <= 2 * At(a.bbox, idx + 2)

\* Collection.sort_in_reading_order: top to bottom, then left to right
ReadingKey(line, horiz) ==
    IF horiz THEN <<line.bbox[2], line.bbox[1], line.bbox[3]>>
    ELSE <<line.bbox[1], line.bbox[4], line.bbox[2]>>

sort_in_reading_order(lines, horiz) ==
    StableSort([i \in 1..Len(lines) |-> <<ReadingKey(lines[i], horiz), lines[i]>>])

\* --------------------------------------------------------------- Lines
\* Lines.sort, the loop of lines 155-165: consecutive lines go to one row
\* while each is in the same row as the last line of that row
RECURSIVE lines_in_rows(_, _, _)
lines_in_rows(lines, rows, horiz) ==
    IF lines = <<>> THEN rows
    ELSE LET line == Head(lines)
             n == Len(rows)
         IN  IF n = 0 \/ ~in_same_row(line, rows[n][Len(rows[n])], horiz)
             THEN lines_in_rows(Tail(lines), Append(rows, <<line>>), horiz)
             ELSE lines_in_rows(Tail(lines),
                                [rows EXCEPT ![n] = Append(rows[n], line)], horiz)

\* row.sort(key=lambda line: line.bbox[idx])
sort_row(row, horiz) ==
    LET idx == IF horiz THEN 0 ELSE 3
    IN  StableSort([i \in 1..Len(row) |-> <<<<At(row[i].bbox, idx), 0, 0>>, row[i]>>])

\* Lines.sort, lines 167-172: every row sorted, the rows put back in order
sort_rows(rows, horiz) ==
    Flatten([k \in 1..Len(rows) |-> sort_row(rows[k], horiz)])

\* a sort that forgets the first step, sort_in_reading_order
sort_NoReadingOrder(lines, horiz) ==
    sort_rows(lines_in_rows(lines, <<>>, horiz), horiz)

\* a sort that forgets the last step, the sort of each row
sort_NoRowSort(lines, horiz) ==
    Flatten(lines_in_rows(sort_in_reading_order(lines, horiz), <<>>, horiz))

\* Lines.sort
sort(lines, horiz) ==
    sort_rows(lines_in_rows(sort_in_reading_order(lines, horiz), <<>>, horiz), horiz)

\* BBox.get_main_bbox, used for its truth value: the two boxes intersect and
\* the common area is at least threshold (in percent) of the smaller box; a
\* common area of zero counts as the ratio 1e-6
main_bbox(bbox_1, bbox_2, threshold) ==
    LET i == RectAnd(bbox_1, bbox_2)
        area == RectArea(i)
        small == Min(RectArea(bbox_1), RectArea(bbox_2))
    IN  /\ RectBool(i)
        /\ IF area > 0 THEN area * 100 >= threshold * small ELSE threshold <= 0

get_main_bbox(a, b, threshold) == main_bbox(a.bbox, b.bbox, threshold)

\* Line.add(list of spans): each span is appended and the line's bbox grows
\* to hold it
RECURSIVE add(_, _)
add(line, spans) ==
    IF spans = <<>> THEN line
    ELSE add([line EXCEPT !.spans = Append(@, Head(spans)),
                          !.bbox = RectOr(@, Head(spans).bbox)],
             Tail(spans))

\* a pass that forgets to add the runs of a line it merges
join_step_LoseMerged(line, acc, ot, mt, horiz) ==
    LET n == Len(acc.lines)
        last == acc.lines[n]
    IN  IF n = 0 THEN [acc EXCEPT !.lines = Append(@, line)]
        ELSE IF get_main_bbox(line, last, ot)
             THEN [acc EXCEPT !.ignored = @ \cup {line.id}]
        ELSE IF ~in_same_row(line, last, horiz)
             THEN [acc EXCEPT !.lines = Append(@, line)]
        ELSE IF Abs(line.bbox[1] - last.bbox[3]) > mt
             THEN [acc EXCEPT !.lines = Append(@, line)]
        ELSE acc

\* a pass that keeps a line apart already when its gap equals the threshold
join_step_GapAtLeast(line, acc, ot, mt, horiz) ==
    LET n == Len(acc.lines)
        last == acc.lines[n]
    IN  IF n = 0 THEN [acc EXCEPT !.lines = Append(@, line)]
        ELSE IF get_main_bbox(line, last, ot)
             THEN [acc EXCEPT !.ignored = @ \cup {line.id}]
        ELSE IF ~in_same_row(line, last, horiz)
             THEN [acc EXCEPT !.lines = Append(@, line)]
        ELSE IF Abs(line.bbox[1] - last.bbox[3]) >= mt
             THEN [acc EXCEPT !.lines = Append(@, line)]
        ELSE [acc EXCEPT !.lines[n] = add(last, line.spans)]

\* Lines.join, one pass of the loop of lines 67-87; acc.lines is the local
\* `lines`, acc.ignored the lines reported as ignored
join_step(line, acc, ot, mt, horiz) ==
    LET n == Len(acc.lines)
        last == acc.lines[n]
    IN  IF n = 0 THEN [acc EXCEPT !.lines = Append(@, line)]
        ELSE IF get_main_bbox(line, last, ot)
             THEN [acc EXCEPT !.ignored = @ \cup {line.id}]
        ELSE IF ~in_same_row(line, last, horiz)
             THEN [acc EXCEPT !.lines = Append(@, line)]
        ELSE IF Abs(line.bbox[1] - last.bbox[3]) > mt
             THEN [acc EXCEPT !.lines = Append(@, line)]
        ELSE [acc EXCEPT !.lines[n] = add(last, line.spans)]

RECURSIVE join_scan(_, _, _, _, _)
join_scan(todo, acc, ot, mt, horiz) ==
    IF todo = <<>> THEN acc
    ELSE join_scan(Tail(todo), join_step(Head(todo), acc, ot, mt, horiz), ot, mt, horiz)

\* Lines.join, lines 64-87: the scan of the sorted lines into a new collection
join_lines(sorted, ot, mt, horiz) ==
    join_scan(sorted, [lines |-> <<>>, ignored |-> {}], ot, mt, horiz)

\* bbox of a collection: the union of its members' boxes
RECURSIVE UnionBox(_)
UnionBox(lines) ==
    IF lines = <<>> THEN EmptyRect ELSE RectOr(Head(lines).bbox, UnionBox(Tail(lines)))

\* Line.text: the text of the spans, in order
RECURSIVE LineText(_)
LineText(spans) ==
    IF spans = <<>> THEN <<>>
    ELSE [i \in 1..Len(Head(spans).chars) |-> Head(spans).chars[i].c]
         \o LineText(Tail(spans))

\* str.strip(): whitespace removed at both ends
RECURSIVE LStrip(_)
LStrip(t) == IF t # <<>> /\ Head(t) = " " THEN LStrip(Tail(t)) ELSE t

RECURSIVE RStrip(_)
RStrip(t) ==
    IF t # <<>> /\ t[Len(t)] = " " THEN RStrip(SubSeq(t, 1, Len(t) - 1)) ELSE t

Strip(t) == RStrip(LStrip(t))

\* a decision that breaks the line already when the free space equals the
\* threshold
line_break_at_AtLeast(lines, i, blk, horiz, threshold) ==
    LET idx0 == IF horiz THEN 0 ELSE 3
        idx1 == (idx0 + 2) % 4
        width == Abs(At(blk.bbox, idx1) - At(blk.bbox, idx0))
        right == blk.alignment = "RIGHT"
        delta_space == IF right THEN blk.left_space_total - blk.left_space
                       ELSE blk.right_space_total - blk.right_space
        idx == IF right THEN idx0 ELSE idx1
        line == lines[i]
        free == Abs(At(blk.bbox, idx) - At(line.bbox, idx)) + delta_space
    IN  IF line.id = lines[Len(lines)].id THEN 0
        ELSE IF in_same_row(line, lines[i + 1], horiz) THEN 0
        ELSE IF width = 0 THEN -1
        ELSE IF free * 100 >= threshold * width THEN 1
        ELSE IF Strip(LineText(lines[i + 1].spans)) = <<>> THEN 1
        ELSE 0

\* Lines.parse_line_break, the decision of lines 254-269 for line i; the
\* threshold is in percent, and the quotient is compared as a product
\* so as to stay in the integers; -1 stands for the ZeroDivisionError of a
\* block without width
line_break_at(lines, i, blk, horiz, threshold) ==
    LET idx0 == IF horiz THEN 0 ELSE 3
        idx1 == (idx0 + 2) % 4
        width == Abs(At(blk.bbox, idx1) - At(blk.bbox, idx0))
        right == blk.alignment = "RIGHT"
        delta_space == IF right THEN blk.left_space_total - blk.left_space
                       ELSE blk.right_space_total - blk.right_space
        idx == IF right THEN idx0 ELSE idx1
        line == lines[i]
        free == Abs(At(blk.bbox, idx) - At(line.bbox, idx)) + delta_space
    IN  IF line.id = lines[Len(lines)].id THEN 0
        ELSE IF in_same_row(line, lines[i + 1], horiz) THEN 0
        ELSE IF width = 0 THEN -1
        ELSE IF free * 100 > threshold * width THEN 1
        ELSE IF Strip(LineText(lines[i + 1].spans)) = <<>> THEN 1
        ELSE 0

\* Lines.parse_line_break: the loop of line 253, which stops where it raises
RECURSIVE parse_line_break(_, _, _, _, _)
parse_line_break(lines, i, blk, horiz, threshold) ==
    IF i > Len(lines) THEN [lines |-> lines, err |-> "none"]
    ELSE LET b == line_break_at(lines, i, blk, horiz, threshold)
         IN  IF b = -1 THEN [lines |-> lines, err |-> "ZeroDivisionError"]
             ELSE parse_line_break([lines EXCEPT ![i].line_break = b],
                                   i + 1, blk, horiz, threshold)

\* docx.shared.Pt: points to English Metric Units
EmuPerPt == 12700
Pt(points) == points * EmuPerPt

\* Lines.make_docx, lines 281-283: the target offset of line i
tab_pos(lines, i, blk, horiz) ==
    LET idx0 == IF horiz THEN 0 ELSE 3
    IN  blk.left_space + (At(lines[i].bbox, idx0) - At(blk.bbox, idx0))

\* an update that measures to the near edge of the line, not to its far edge
next_pos_NearEdge(lines, i, blk, horiz) ==
    LET idx0 == IF horiz THEN 0 ELSE 3
    IN  IF in_same_row(lines[i], lines[i + 1], horiz)
        THEN tab_pos(lines, i, blk, horiz)
             + Abs(At(lines[i].bbox, idx0) - At(blk.bbox, idx0))
        ELSE blk.left_space

\* Lines.make_docx, lines 289-293: current_pos for the line after line i
next_pos(lines, i, blk, horiz) ==
    LET idx0 == IF horiz THEN 0 ELSE 3
        idx1 == (idx0 + 2) % 4
    IN  IF in_same_row(lines[i], lines[i + 1], horiz)
        THEN tab_pos(lines, i, blk, horiz)
             + Abs(At(lines[i].bbox, idx1) - At(blk.bbox, idx0))
        ELSE blk.left_space

\* Lines.make_docx: the loop of line 279; p grows by the tab stop of a line,
\* add_stop(p, Pt(pos), Pt(current_pos)), and then by the line itself
RECURSIVE make_docx(_, _, _, _, _, _)
make_docx(lines, i, current_pos, p, blk, horiz) ==
    IF i > Len(lines) THEN p
    ELSE LET pos == tab_pos(lines, i, blk, horiz)
             stop == IF pos > blk.left_space /\ blk.tab_stops
                     THEN <<[kind |-> "stop", line |-> lines[i].id,
                             pos |-> Pt(pos), current |-> Pt(current_pos)]>>
                     ELSE <<>>
             p1 == p \o stop \o <<[kind |-> "line", line |-> lines[i].id]>>
         IN  IF lines[i].id = lines[Len(lines)].id THEN p1
             ELSE make_docx(lines, i + 1, next_pos(lines, i, blk, horiz), p1, blk, horiz)

\* ------------------------------------------------------------ TextSpan
\* TextSpan.__init__(self, raw): raw has no default, so a call without it
\* raises TypeError
InitRequired == 1

new_TextSpan(nargs) ==
    IF nargs < InitRequired
    THEN [err |-> "TypeError", parts |-> <<>>]
    ELSE [err |-> "none", parts |-> <<[bbox |-> EmptyRect, chars |-> <<>>, style |-> <<>>]>>]

\* TextSpan.text is a property with a getter only: assigning to it raises
TextHasSetter == FALSE

\* Char.contained_in_rect: the rectangle holds the character, or covers more
\* than half of its width
contained_in_rect(char, rect) ==
    LET i == RectAnd(char.bbox, rect.bbox)
    IN  \/ RectContains(rect.bbox, char.bbox)
        \/ /\ RectBool(i)
           /\ 2 * (i[3] - i[1]) > char.bbox[3] - char.bbox[1]

\* TextSpan.split, lines 120-150 with the assignments to text left out: the
\* parts the split is written to return, given the expanded intersection,
\* the start index pos and the number of characters in the shape
split_at(s, rect, intsec, pos, length) ==
    LET n == Len(s.chars)
        pos_end == Max(pos + length, 0)
        left == IF pos > 0
                THEN <<[s EXCEPT !.bbox = <<s.bbox[1], s.bbox[2], intsec[1], s.bbox[4]>>,
                                 !.chars = SubSeq(s.chars, 1, pos)]>>
                ELSE <<>>
        middle == IF length > 0
                  THEN <<[s EXCEPT !.bbox = intsec,
                                   !.chars = SubSeq(s.chars, pos + 1, pos_end),
                                   !.style = IF rect.style = "none" THEN @
                                             ELSE Append(@, rect.style)]>>
                  ELSE <<>>
        right == IF pos_end < n
                 THEN <<[s EXCEPT !.bbox = <<intsec[3], s.bbox[2], s.bbox[3], s.bbox[4]>>,
                                  !.chars = SubSeq(s.chars, pos_end + 1, n)]>>
                 ELSE <<>>
    IN  left \o middle \o right

\* TextSpan.split, lines 112-113: the indices of the characters in the shape
index_chars(s, rect) ==
    {k \in 0..(Len(s.chars) - 1) : contained_in_rect(s.chars[k + 1], rect)}

\* TextSpan.split, line 116: the first of them, -1 if there is none
first_index(found) ==
    IF found = {} THEN -1 ELSE CHOOSE k \in found : \A j \in found : k <= j

\* TextSpan.split, lines 104-118
split_parts(s, rect, i0) ==
    split_at(s, rect, <<i0[1], s.bbox[2], i0[3], s.bbox[4]>>,
             first_index(index_chars(s, rect)), Cardinality(index_chars(s, rect)))

\* TextSpan.split, lines 127, 135, 149: the first part that is built has its
\* text assigned, which raises as the property has no setter
assign_text(parts) ==
    IF parts # <<>> /\ ~TextHasSetter
    THEN [err |-> "AttributeError", parts |-> <<>>]
    ELSE [err |-> "none", parts |-> parts]

\* TextSpan.split(rect): the span itself when the shape misses its bbox
split(s, rect) ==
    IF ~RectBool(RectAnd(rect.bbox, s.bbox)) THEN [err |-> "none", parts |-> <<s>>]
    ELSE assign_text(split_parts(s, rect, RectAnd(rect.bbox, s.bbox)))

\* TextSpan.split(self, rect) takes one argument besides self
SplitParams == 1

\* a call of span.split with nargs arguments
call_split(s, rect, nargs) ==
    IF nargs # SplitParams THEN [err |-> "TypeError", parts |-> <<>>]
    ELSE split(s, rect)

\* TextSpan.intersect(rect); the overlap ratio 0.2 is 20 percent
intersect(s, rect) ==
    IF RectContains(rect.bbox, s.bbox) THEN [err |-> "none", parts |-> <<s>>]
    ELSE IF ~RectIntersects(rect.bbox, s.bbox) THEN new_TextSpan(0)
    ELSE LET span_chars == SelectSeq(s.chars, LAMBDA ch : main_bbox(ch.bbox, rect.bbox, 20))
             span_bbox == RectOr(EmptyRect, s.bbox)
         IN  IF span_chars = <<>> THEN new_TextSpan(0)
             ELSE [err |-> "none",
                   parts |-> <<[s EXCEPT !.chars = span_chars, !.bbox = span_bbox]>>]

\* ---------------------------------------------------- parse_text_format
\* constants.MAJOR_DIST, in grid units; the literal is set outside the two
\* source files
MAJOR_DIST == 1

\* Line.get_expand_bbox(dt)
get_expand_bbox(line, dt) ==
    <<line.bbox[1] - dt, line.bbox[2] - dt, line.bbox[3] + dt, line.bbox[4] + dt>>

\* Lines.parse_text_format, lines 215-223: the spans of one intersecting line
\* after the split, or the exception of the first call that raises
RECURSIVE split_spans(_, _, _, _)

\* lines 221-223: the outcome r of span.split(rect, line.is_horizontal_text)
after_split(spans, rect, horiz, acc, r) ==
    IF r.err # "none" THEN [acc EXCEPT !.err = r.err]
    ELSE split_spans(Tail(spans), rect, horiz,
                     [acc EXCEPT !.parts = @ \o r.parts, !.flag = TRUE])

split_spans(spans, rect, horiz, acc) ==
    IF spans = <<>> THEN acc
    ELSE IF Head(spans).kind = "image"
         THEN split_spans(Tail(spans), rect, horiz,
                          [acc EXCEPT !.parts = Append(@, Head(spans))])
    ELSE after_split(spans, rect, horiz, acc, call_split(Head(spans), rect, 2))

\* Lines.parse_text_format: the loop of line 205 from line i on
RECURSIVE parse_text_format(_, _, _, _, _)

\* line 226: the spans r of line i replace its own, unless a split raised
after_line(lines, i, rect, horiz, acc, r) ==
    IF r.err # "none"
    THEN [acc EXCEPT !.lines = lines, !.err = r.err, !.flag = r.flag,
                     !.visited = @ \cup {lines[i].id}]
    ELSE parse_text_format([lines EXCEPT ![i].spans = r.parts], i + 1, rect, horiz,
                           [acc EXCEPT !.flag = r.flag, !.visited = @ \cup {lines[i].id}])

parse_text_format(lines, i, rect, horiz, acc) ==
    IF i > Len(lines) THEN [acc EXCEPT !.lines = lines]
    ELSE IF ~RectBool(RectAnd(rect.bbox, get_expand_bbox(lines[i], MAJOR_DIST)))
         THEN IF rect.bbox[4] < lines[i].bbox[2]
              THEN [acc EXCEPT !.lines = lines]
              ELSE parse_text_format(lines, i + 1, rect, horiz, acc)
    ELSE after_line(lines, i, rect, horiz, acc,
                    split_spans(lines[i].spans, rect, horiz,
                                [parts |-> <<>>, flag |-> acc.flag, err |-> "none"]))

\* ------------------------------------------------------- initial states
\* a line that is sorted or joined is one grid unit wide and sits in the
\* left or the right column, over any span of rows
Columns == 0..1
YSpans == {q \in (0..MaxY) \X (0..MaxY) : q[1] < q[2]}
LineBoxes == {<<c, q[1], c + 1, q[2]>> : c \in Columns, q \in YSpans}

\* a line of a block spans any columns of one of two rows
XSpans == {q \in (0..MaxX) \X (0..MaxX) : q[1] < q[2]}
BlockBoxes == {<<q[1], r, q[2], r + 1>> : q \in XSpans, r \in 0..1}

\* line_overlap_threshold in percent, line_merging_threshold in grid units
OverlapThresholds == {50, 100}
MergeThresholds == {0, 1}
\* line_free_space_ratio_threshold in percent
BreakThresholds == {50, 100}

\* a style shape: its bbox and the style to_text_style derives from it
Rects(maxx, maxy) ==
    {[bbox |-> <<x[1], y[1], x[2], y[2]>>, style |-> st] :
        x \in {q \in (0..maxx) \X (0..maxx) : q[1] < q[2]},
        y \in {q \in (0..maxy) \X (0..maxy) : q[1] < q[2]},
        st \in {"none", "underline"}}

\* Line(raw): one span filling the line and holding one character
LineOf(i, box, kind, c) ==
    [id |-> i, bbox |-> box, line_break |-> 0,
     spans |-> <<[id |-> i, kind |-> kind, bbox |-> box, style |-> <<>>,
                  chars |-> IF kind = "image" THEN <<>>
                            ELSE <<[c |-> c, bbox |-> box]>>]>>]

\* a text span of n characters, each one grid unit wide
Glyphs == <<"a", "b", "c", "d", "e", "f">>
SpanOf(n) ==
    [id |-> 0, kind |-> "text", style |-> <<>>,
     bbox |-> <<1, 1, 1 + Max(n, 1), 2>>,
     chars |-> [k \in 1..n |-> [c |-> Glyphs[k], bbox |-> <<k, 1, k + 1, 2>>]]]

NoSpan == [id |-> 0, kind |-> "text", style |-> <<>>, bbox |-> EmptyRect, chars |-> <<>>]

\* the block owning the lines: its bbox is the union of theirs
BlockOf(lines) ==
    [bbox |-> UnionBox(lines), alignment |-> "LEFT", tab_stops |-> TRUE,
     left_space |-> 0, left_space_total |-> 0,
     right_space |-> 0, right_space_total |-> 0]

Fresh ==
    /\ op = "init"
    /\ input = instances
    /\ arg = <<>>
    /\ discarded = {}
    /\ paragraph = <<>>
    /\ visited = {}
    /\ ret = <<>>
    /\ err = "none"

\* Lines.restore over any raw lines, in any order, of either text direction
InitSort ==
    /\ \E n \in 1..MaxLines : \E boxes \in [1..n -> LineBoxes] :
         instances = [i \in 1..n |-> LineOf(i, boxes[i], "text", "a")]
    /\ horizontal \in BOOLEAN
    /\ block = BlockOf(instances)
    /\ span = NoSpan
    /\ Fresh

\* Lines.sort(), called once on the restored lines
Sort ==
    /\ op = "init"
    /\ instances' = sort(instances, horizontal)
    /\ input' = instances
    /\ op' = "sort"
    /\ UNCHANGED <<horizontal, block, arg, discarded, paragraph, visited, span, ret, err>>

SpecSort == InitSort /\ [][Sort]_vars

\* Lines.join(line_overlap_threshold, line_merging_threshold): nothing to do
\* for an empty collection; else the lines are sorted and scanned, and reset()
\* hands every kept line to the block, whose bbox grows to hold it
Join ==
    /\ op = "init"
    /\ instances # <<>>
    /\ \E sorted \in {sort(instances, horizontal)} :
         \E ot \in OverlapThresholds, mt \in MergeThresholds :
             \E r \in {join_lines(sorted, ot, mt, horizontal)} :
                 /\ instances' = r.lines
                 /\ discarded' = r.ignored
                 /\ block' = [block EXCEPT !.bbox = RectOr(@, UnionBox(r.lines))]
                 /\ arg' = <<ot, mt>>
    /\ input' = instances
    /\ op' = "join"
    /\ UNCHANGED <<horizontal, paragraph, visited, span, ret, err>>

\* join measures the gap between two lines along x: lines of horizontal text
InitJoin == InitSort /\ horizontal

SpecJoin == InitJoin /\ [][Join]_vars

\* a block of horizontal or vertical text, aligned right or not, whose lines
\* are blank or not; of the four spaces only the difference of a pair is read
InitBreak ==
    /\ \E n \in 1..MaxBlockLines :
         \E boxes \in [1..n -> BlockBoxes], cs \in [1..n -> {" ", "a"}] :
           instances = [i \in 1..n |-> LineOf(i, boxes[i], "text", cs[i])]
    /\ horizontal \in BOOLEAN
    /\ \E al \in {"LEFT", "RIGHT"}, d \in 0..1 :
         block = [BlockOf(instances) EXCEPT
                    !.alignment = al,
                    !.left_space_total = IF al = "RIGHT" THEN d ELSE 0,
                    !.right_space_total = IF al = "RIGHT" THEN 0 ELSE d]
    /\ span = NoSpan
    /\ Fresh

\* Lines.parse_line_break(line_free_space_ratio_threshold)
ParseLineBreak ==
    /\ op = "init"
    /\ \E t \in BreakThresholds :
         \E r \in {parse_line_break(instances, 1, block, horizontal, t)} :
             /\ instances' = r.lines
             /\ err' = r.err
             /\ arg' = <<t>>
    /\ input' = instances
    /\ op' = "parse_line_break"
    /\ UNCHANGED <<horizontal, block, discarded, paragraph, visited, span, ret>>

SpecBreak == InitBreak /\ [][ParseLineBreak]_vars

\* a block with or without tab stops and with or without left space
InitDocx ==
    /\ \E n \in 1..MaxBlockLines : \E boxes \in [1..n -> BlockBoxes] :
         instances = [i \in 1..n |-> LineOf(i, boxes[i], "text", "a")]
    /\ horizontal \in BOOLEAN
    /\ \E ts \in BOOLEAN, ls \in 0..1 :
         block = [BlockOf(instances) EXCEPT !.tab_stops = ts, !.left_space = ls]
    /\ span = NoSpan
    /\ Fresh

\* Lines.make_docx(p)
MakeDocx ==
    /\ op = "init"
    /\ paragraph' = make_docx(instances, 1, block.left_space, <<>>, block, horizontal)
    /\ input' = instances
    /\ op' = "make_docx"
    /\ UNCHANGED <<instances, horizontal, block, arg, discarded, visited, span, ret, err>>

SpecDocx == InitDocx /\ [][MakeDocx]_vars

\* a line met by a style shape sits in the left or the right column, over any
\* span of rows of a page one row taller
FormatBoxes ==
    {<<c, q[1], c + 1, q[2]>> :
        c \in Columns, q \in {q \in (0..(MaxY + 1)) \X (0..(MaxY + 1)) : q[1] < q[2]}}

\* lines of text or of an inline image, sorted in advance by Lines.sort()
InitFormat ==
    /\ \E n \in 1..MaxFormatLines :
         \E boxes \in [1..n -> FormatBoxes], ks \in [1..n -> {"text", "image"}] :
           instances = sort([i \in 1..n |-> LineOf(i, boxes[i], ks[i], "a")], TRUE)
    /\ horizontal = TRUE
    /\ block = BlockOf(instances)
    /\ span = NoSpan
    /\ Fresh

\* Lines.parse_text_format(rect)
ParseTextFormat ==
    /\ op = "init"
    /\ \E rect \in Rects(MaxX + 2, MaxY + 1) :
         \E r \in {parse_text_format(instances, 1, rect, horizontal,
                     [lines |-> <<>>, flag |-> FALSE, err |-> "none", visited |-> {}])} :
             /\ instances' = r.lines
             /\ visited' = r.visited
             /\ err' = r.err
             /\ ret' = IF r.err = "none" THEN <<r.flag>> ELSE <<>>
             /\ arg' = <<rect>>
    /\ input' = instances
    /\ op' = "parse_text_format"
    /\ UNCHANGED <<horizontal, block, discarded, paragraph, span>>

SpecFormat == InitFormat /\ [][ParseTextFormat]_vars

\* a text span of up to MaxChars characters
InitSpan ==
    /\ \E n \in 0..MaxChars : span = SpanOf(n)
    /\ instances = <<>>
    /\ horizontal = TRUE
    /\ block = BlockOf(<<>>)
    /\ Fresh

\* TextSpan.split(rect)
Split ==
    /\ op = "init"
    /\ \E rect \in Rects(MaxChars + 2, 3) :
         \E r \in {split(span, rect)} :
             /\ ret' = r.parts
             /\ err' = r.err
             /\ arg' = <<rect>>
    /\ op' = "split"
    /\ UNCHANGED <<instances, horizontal, block, input, discarded, paragraph, visited, span>>

\* TextSpan.intersect(rect)
Intersect ==
    /\ op = "init"
    /\ \E rect \in Rects(MaxChars + 2, 3) :
         \E r \in {intersect(span, rect)} :
             /\ ret' = r.parts
             /\ err' = r.err
             /\ arg' = <<rect>>
    /\ op' = "intersect"
    /\ UNCHANGED <<instances, horizontal, block, input, discarded, paragraph, visited, span>>

NextSpan == Split \/ Intersect

SpecSpan == InitSpan /\ [][NextSpan]_vars

\* ---------------------------------------------------------------- claims
Ids(lines) == {lines[i].id : i \in 1..Len(lines)}
SpanIds(lines) ==
    UNION {{lines[i].spans[j].id : j \in 1..Len(lines[i].spans)} : i \in 1..Len(lines)}
SpanCount(lines) == Len(Flatten([i \in 1..Len(lines) |-> lines[i].spans]))
ById(lines, id) == CHOOSE l \in Range(lines) : l.id = id

\* C1: sorting a sorted collection again leaves every line where it is
C1_SortIdempotent ==
    op = "sort" => sort(instances, horizontal) = instances

\* a sort that moved lines, of a collection with ties in the reading order
C1_Witness ==
    /\ op = "sort"
    /\ input # instances
    /\ \E i, j \in 1..Len(input) :
          /\ i < j
          /\ input[i].bbox # input[j].bbox
          /\ ReadingKey(input[i], horizontal) = ReadingKey(input[j], horizontal)

\* C2 as stated: after the sort no two neighbours of horizontal text that are
\* in the same row have the earlier one's left edge to the right of the
\* later one's
C2_NeighboursLeftToRight ==
    (op = "sort" /\ horizontal) =>
        \A i \in 1..(Len(instances) - 1) :
            in_same_row(instances[i], instances[i + 1], horizontal)
                => instances[i].bbox[1] <= instances[i + 1].bbox[1]

\* the rows the sort forms: runs of the lines in reading order
RowsOf(lines, horiz) == lines_in_rows(sort_in_reading_order(lines, horiz), <<>>, horiz)
RowStart(rows, k) == Len(Flatten(SubSeq(rows, 1, k - 1)))
\* result holds the rows one after the other, each ascending by bbox[idx]
RowsInOrder(rows, result, idx) ==
    \A k \in 1..Len(rows) : \A j \in 1..Len(rows[k]) :
        LET at == RowStart(rows, k) + j
        IN  /\ result[at].id \in Ids(rows[k])
            /\ j < Len(rows[k]) =>
                  At(result[at].bbox, idx) <= At(result[at + 1].bbox, idx)

\* C2 amended: with a row taken as a maximal run of the lines in reading order
\* (by top edge, then left edge) each in the same row as its predecessor
\* there, the result is these rows one after the other, and inside a row the
\* lines ascend by left edge (by bbox[3] for vertical text)
C2_RowsLeftToRight ==
    op = "sort" =>
        /\ Len(instances) = Len(input)
        /\ RowsInOrder(RowsOf(input, horizontal), instances, IF horizontal THEN 0 ELSE 3)

\* a sort that reordered a row of two or more lines, followed by another row
C2_Witness ==
    /\ op = "sort"
    /\ horizontal
    /\ instances # sort_in_reading_order(input, horizontal)
    /\ Len(RowsOf(input, horizontal)) >= 2

\* C3: join leaves no more lines than it found; every run of the result is a
\* run of an input line and is there once; the runs that are gone are those
\* of the lines reported as ignored
C3_JoinReduction ==
    op = "join" =>
        /\ Len(instances) <= Len(input)
        /\ \A i \in 1..Len(instances) : \A j \in 1..Len(instances[i].spans) :
              \E l \in Range(input) : instances[i].spans[j] \in Range(l.spans)
        /\ SpanCount(instances) = Cardinality(SpanIds(instances))
        /\ discarded \subseteq Ids(input)
        /\ SpanIds(input) \ SpanIds(instances)
              = SpanIds(SelectSeq(input, LAMBDA l : l.id \in discarded))

\* a join that both ignored a line and merged one
C3_Witness ==
    /\ op = "join"
    /\ discarded # {}
    /\ \E l \in Range(instances) : Len(l.spans) >= 2

\* C4 as stated: after join any two neighbours, with their final boxes, are
\* in different rows or further apart than the merging threshold
C4_NeighboursApart ==
    op = "join" =>
        \A i \in 1..(Len(instances) - 1) :
            \/ ~in_same_row(instances[i + 1], instances[i], horizontal)
            \/ Abs(instances[i + 1].bbox[1] - instances[i].bbox[3]) > arg[2]

\* C4 amended: after join any two neighbours, the earlier with its final box
\* and the later with the box it had when it was accepted (before any runs
\* were merged into it), are in different rows or further apart than the
\* merging threshold
C4_ApartWhenAccepted ==
    op = "join" =>
        \A i \in 1..(Len(instances) - 1) :
            LET accepted == ById(input, instances[i + 1].id)
            IN  \/ ~in_same_row(accepted, instances[i], horizontal)
                \/ Abs(accepted.bbox[1] - instances[i].bbox[3]) > arg[2]

\* a join whose later line grew by a merge into the row of its neighbour
C4_Witness ==
    /\ op = "join"
    /\ \E i \in 1..(Len(instances) - 1) :
          /\ Len(instances[i + 1].spans) >= 2
          /\ in_same_row(instances[i + 1], instances[i], horizontal)
          /\ ~in_same_row(ById(input, instances[i + 1].id), instances[i], horizontal)

\* the shape the operation was called with
Shape == arg[1]
CharsOf(parts) == Flatten([k \in 1..Len(parts) |-> parts[k].chars])

\* C5: a split by a shape that meets the run and holds a block of its
\* characters returns parts whose characters, joined in order, are the
\* characters of the run
C5_SplitComplete ==
    (/\ op = "split"
     /\ RectBool(RectAnd(Shape.bbox, span.bbox))
     /\ index_chars(span, Shape) # {})
        => /\ err = "none"
           /\ CharsOf(ret) = span.chars

\* C6: on a block with width, a line gets a break exactly when it is not the
\* last, is not in the row of the next line, and either its free space over
\* the width exceeds the threshold or the next line is blank
C6_LineBreakDecision ==
    (op = "parse_line_break" /\ block.bbox[1] # block.bbox[3] /\ block.bbox[2] # block.bbox[4]) =>
        LET n == Len(input)
            right == block.alignment = "RIGHT"
            edge == IF right THEN (IF horizontal THEN 1 ELSE 4)
                    ELSE (IF horizontal THEN 3 ELSE 2)
            width == IF horizontal THEN Abs(block.bbox[3] - block.bbox[1])
                     ELSE Abs(block.bbox[2] - block.bbox[4])
            delta == IF right THEN block.left_space_total - block.left_space
                     ELSE block.right_space_total - block.right_space
            free(i) == Abs(block.bbox[edge] - input[i].bbox[edge]) + delta
            blank(i) == \A sp \in Range(input[i].spans) : \A ch \in Range(sp.chars) : ch.c = " "
            break(i) == /\ i < n
                        /\ ~in_same_row(input[i], input[i + 1], horizontal)
                        /\ (free(i) * 100 > arg[1] * width \/ blank(i + 1))
        IN  /\ err = "none"
            /\ Len(instances) = n
            /\ \A i \in 1..n :
                  /\ instances[i].line_break = IF break(i) THEN 1 ELSE 0
                  /\ [instances[i] EXCEPT !.line_break = 0] = input[i]

\* a block of two rows whose first line has free space equal to the
\* threshold: it does not break
C6_Witness ==
    /\ op = "parse_line_break"
    /\ Len(instances) >= 2
    /\ instances[1].line_break = 0
    /\ ~in_same_row(input[1], input[2], horizontal)
    /\ block.alignment # "RIGHT"
    /\ horizontal
    /\ (Abs(block.bbox[3] - input[1].bbox[3]) + block.right_space_total) * 100
          = arg[1] * Abs(block.bbox[3] - block.bbox[1])

\* C7: make_docx puts a tab stop before a line exactly when the line's
\* offset pos exceeds the left space and the block has tab stops; the stop is
\* at pos, from the left space for the first line and for a line after a
\* line of another row, else from where the line before ends
C7_TabPlacement ==
    op = "make_docx" =>
        LET n == Len(instances)
            i0 == IF horizontal THEN 1 ELSE 4
            i1 == IF horizontal THEN 3 ELSE 2
            pos(i) == block.left_space + (instances[i].bbox[i0] - block.bbox[i0])
            cur(i) == IF i = 1 \/ ~in_same_row(instances[i - 1], instances[i], horizontal)
                      THEN block.left_space
                      ELSE pos(i - 1) + Abs(instances[i - 1].bbox[i1] - block.bbox[i0])
            events(i) ==
                (IF pos(i) > block.left_space /\ block.tab_stops
                 THEN <<[kind |-> "stop", line |-> instances[i].id,
                         pos |-> 12700 * pos(i), current |-> 12700 * cur(i)]>>
                 ELSE <<>>)
                \o <<[kind |-> "line", line |-> instances[i].id]>>
        IN  paragraph = Flatten([i \in 1..n |-> events(i)])

\* a paragraph with a stop that starts where the line before it ends
C7_Witness ==
    /\ op = "make_docx"
    /\ \E k \in 1..Len(paragraph) :
          /\ paragraph[k].kind = "stop"
          /\ paragraph[k].current # 12700 * block.left_space
          /\ block.left_space > 0

\* C8: intersect with a rectangle that misses the run, or that meets it
\* without any character reaching the overlap ratio, returns an empty run
\* and raises nothing
C8_IntersectEmptySentinel ==
    (/\ op = "intersect"
     /\ ~RectContains(Shape.bbox, span.bbox)
     /\ \/ ~RectIntersects(Shape.bbox, span.bbox)
        \/ \A ch \in Range(span.chars) : ~main_bbox(ch.bbox, Shape.bbox, 20))
        => /\ err = "none"
           /\ Len(ret) = 1
           /\ ret[1].chars = <<>>

\* C9: on sorted lines a scan that ends without an exception has met every
\* line whose expanded bbox the shape intersects
C9_EarlyExitSound ==
    (op = "parse_text_format" /\ err = "none") =>
        \A l \in Range(input) :
            RectBool(RectAnd(Shape.bbox, get_expand_bbox(l, MAJOR_DIST)))
                => l.id \in visited

\* C10: parse_text_format returns, and returns true exactly when it changed
\* a run of some line
C10_ReturnsWhetherSplit ==
    op = "parse_text_format" =>
        /\ err = "none"
        /\ ret = <<instances # input>>

====
